---------------------------- MODULE Spec2Model ----------------------------
(***************************************************************************)
(* Tabular enrichment scripts: process_excel of transactions.py and main   *)
(* of Sanitize_PT_v4.py, modelled stage by stage on a small data frame.    *)
(*                                                                         *)
(* A Python str is a sequence of one-character strings, so that lower(),   *)
(* strip() and the substring test are computed and not assumed.  A cell of *)
(* the frame is a tagged record: NaN/NaT, a str, an int or a datetime.     *)
(* A frame is its ordered column labels and its rows; a row keeps its      *)
(* index label (the original position) and its cells by column position.   *)
(***************************************************************************)
EXTENDS Integers, Sequences, FiniteSets, TLC

\* all_unmatched_indices is the content of the Python set of that name and
\* unmatched_table the hash table CPython keeps it in
VARIABLES prog, pc, input, refs, today, df, out,
          li, all_unmatched_indices, unmatched_table, summary_data,
          unmatched_out, summary_out

vars == <<prog, pc, input, refs, today, df, out,
          li, all_unmatched_indices, unmatched_table, summary_data,
          unmatched_out, summary_out>>

---------------------------------------------------------------------------
(* Bounds of the model *)

\* rows of the main file in the per-row (classification) input family
MaxRichRows == 1
\* rows of the main file in the row-count and lookup input families
MaxRows == 2
\* rows of a lookup reference file
MaxRefRows == 2
\* rows of the main file in the export input family: more than the 8 slots
\* of a new Python set
MaxLongRows == 9
\* the day number of the run ("now")
Today == 100

---------------------------------------------------------------------------
(* Python str and scalar helpers *)

UpperCase == <<"A","B","C","D","E","F","G","H","I","J","K","L","M",
               "N","O","P","Q","R","S","T","U","V","W","X","Y","Z">>
LowerCase == <<"a","b","c","d","e","f","g","h","i","j","k","l","m",
               "n","o","p","q","r","s","t","u","v","w","x","y","z">>

LowerChar(c) ==
    IF \E i \in 1..Len(UpperCase) : UpperCase[i] = c
    THEN LowerCase[CHOOSE i \in 1..Len(UpperCase) : UpperCase[i] = c]
    ELSE c

\* str.lower()
Lower(s) == [i \in 1..Len(s) |-> LowerChar(s[i])]

IsSpace(c) == c = " "

RECURSIVE LStrip(_)
LStrip(s) == IF s # <<>> /\ IsSpace(Head(s)) THEN LStrip(Tail(s)) ELSE s

RECURSIVE RStrip(_)
RStrip(s) ==
    IF s # <<>> /\ IsSpace(s[Len(s)]) THEN RStrip(SubSeq(s, 1, Len(s) - 1)) ELSE s

\* str.strip()
Strip(s) == RStrip(LStrip(s))

\* needle in hay
Contains(hay, needle) ==
    \E i \in 0..(Len(hay) - Len(needle)) : SubSeq(hay, i + 1, i + Len(needle)) = needle

(* cells *)
NaN == [k |-> "nan", s |-> <<>>, n |-> 0, tod |-> 0]
Str(s) == [k |-> "str", s |-> s, n |-> 0, tod |-> 0]
Int_(n) == [k |-> "int", s |-> <<>>, n |-> n, tod |-> 0]
\* a datetime: day number and time of day (0 = midnight)
Date(d, t) == [k |-> "date", s |-> <<>>, n |-> d, tod |-> t]

\* pd.isnull / pd.notnull
IsNull(c) == c.k = "nan"

Digits == <<"0","1","2","3","4","5","6","7","8","9">>

RECURSIVE NatToStr(_)
NatToStr(n) ==
    IF n < 10 THEN <<Digits[n + 1]>> ELSE NatToStr(n \div 10) \o <<Digits[(n % 10) + 1]>>

\* str(value) of a cell value (NaN prints as "nan")
PyStr(c) ==
    CASE c.k = "nan" -> <<"n","a","n">>
      [] c.k = "str" -> c.s
      [] c.k = "int" -> IF c.n < 0 THEN <<"-">> \o NatToStr(0 - c.n) ELSE NatToStr(c.n)

IsDigit(ch) == \E i \in 1..Len(Digits) : Digits[i] = ch

RECURSIVE DigitsToNat(_)
DigitsToNat(s) ==
    IF s = <<>> THEN 0
    ELSE 10 * DigitsToNat(SubSeq(s, 1, Len(s) - 1))
         + (CHOOSE i \in 0..9 : Digits[i + 1] = s[Len(s)])

\* int(value): [ok |-> FALSE] stands for the exception int() raises
PyInt(c) ==
    CASE c.k = "int" -> [ok |-> TRUE, n |-> c.n]
      [] c.k = "str" ->
            LET t == Strip(c.s)
                neg == t # <<>> /\ Head(t) = "-"
                body == IF neg THEN Tail(t) ELSE t
            IN  IF body # <<>> /\ \A i \in 1..Len(body) : IsDigit(body[i])
                THEN [ok |-> TRUE,
                      n |-> IF neg THEN 0 - DigitsToNat(body) ELSE DigitsToNat(body)]
                ELSE [ok |-> FALSE, n |-> 0]
      [] OTHER -> [ok |-> FALSE, n |-> 0]

---------------------------------------------------------------------------
(* Data frame helpers *)

HasCol(d, c) == \E i \in 1..Len(d.columns) : d.columns[i] = c

\* positions of the columns labelled c
ColPositions(d, c) == {i \in 1..Len(d.columns) : d.columns[i] = c}

ColPos(d, c) == CHOOSE i \in ColPositions(d, c) : \A j \in ColPositions(d, c) : i <= j

\* row.get(c, default)
RowGet(d, row, c, default) == IF HasCol(d, c) THEN row.vals[ColPos(d, c)] ELSE default

\* df[c] = values: overwrites the column labelled c or appends a new one
SetCol(d, c, values) ==
    IF HasCol(d, c)
    THEN [d EXCEPT !.rows =
            [r \in 1..Len(d.rows) |->
                [d.rows[r] EXCEPT !.vals =
                    [i \in 1..Len(d.columns) |->
                        IF d.columns[i] = c THEN values[r] ELSE d.rows[r].vals[i]]]]]
    ELSE [columns |-> Append(d.columns, c),
          rows |-> [r \in 1..Len(d.rows) |->
                      [d.rows[r] EXCEPT !.vals = Append(d.rows[r].vals, values[r])]]]

Index(d) == [r \in 1..Len(d.rows) |-> d.rows[r].idx]

EmptyFrame == [columns |-> <<>>, rows |-> <<>>]

---------------------------------------------------------------------------
(* transactions.py: CONFIG *)

sOutdated == <<"O","u","t","d","a","t","e","d">>
sEOL == <<"E","O","L">>
sIgnore == <<"I","g","n","o","r","e">>
sOutOfSLO == <<"O","u","t"," ","o","f"," ","S","L","O">>
sCritical == <<"C","r","i","t","i","c","a","l">>
sHigh == <<"H","i","g","h">>
sMedium == <<"M","e","d","i","u","m">>
sLow == <<"L","o","w">>
sInformational == <<"I","n","f","o","r","m","a","t","i","o","n","a","l">>
sSecurityTeam == <<"S","e","c","u","r","i","t","y"," ","T","e","a","m">>

columns_to_extract ==
    <<"App ID", "Application Name", "Scan Date", "Status", "Severity", "Lifecycle">>

\* dict order: "Reviewed By" first, then "Lifecycle"
columns_to_add ==
    << [col |-> "Reviewed By", val |-> Str(sSecurityTeam)],
       [col |-> "Lifecycle", val |-> Str(<<>>)] >>

inplace_age_check == [date_column |-> "Scan Date", age_variable |-> "age_days"]

eol_rule == [trigger_column |-> "Status", keyword |-> sOutdated, value |-> sEOL]

slo_rules ==
    << [severity |-> sCritical, age_gt |-> 30, true_value |-> sOutOfSLO, false_value |-> sIgnore],
       [severity |-> sHigh, age_gt |-> 60, true_value |-> sOutOfSLO, false_value |-> sIgnore],
       [severity |-> sMedium, age_gt |-> 90, true_value |-> sOutOfSLO, false_value |-> sIgnore],
       [severity |-> sLow, age_gt |-> 0, true_value |-> sIgnore, false_value |-> sIgnore],
       [severity |-> sInformational, age_gt |-> 0, true_value |-> sIgnore, false_value |-> sIgnore] >>

lifecycle_target_column == "Lifecycle"

\* final_mapping.map_values
map_values ==
    << [key |-> Str(sEOL), val |-> Str(sEOL)],
       [key |-> Str(sIgnore), val |-> Int_(0)],
       [key |-> Str(sOutOfSLO), val |-> Int_(1)] >>

final_mapping_column == "Lifecycle"

drop_empty_rows == TRUE

---------------------------------------------------------------------------
(* transactions.py: process_excel, one action per step *)

\* df[[col for col in columns_to_extract if col in df.columns]]
Project(d, wanted) ==
    LET kept == SelectSeq(wanted, LAMBDA c : HasCol(d, c))
    IN  [columns |-> kept,
         rows |-> [r \in 1..Len(d.rows) |->
                     [d.rows[r] EXCEPT !.vals =
                         [i \in 1..Len(kept) |-> d.rows[r].vals[ColPos(d, kept[i])]]]]]

\* a row dropna(how="all") removes: every cell is null
AllNull(row) == \A i \in 1..Len(row.vals) : IsNull(row.vals[i])

\* dropna(how="any"): a row with one empty cell is removed
DropNaAny(d) ==
    [d EXCEPT !.rows =
        SelectSeq(d.rows, LAMBDA row : \A i \in 1..Len(row.vals) : ~IsNull(row.vals[i]))]

\* df.dropna(how="all")
DropNaAll(d) == [d EXCEPT !.rows = SelectSeq(d.rows, LAMBDA row : ~AllNull(row))]

\* STEP 1: the input file is read, or the run returns when it is missing
LoadInput ==
    /\ prog = "transactions" /\ pc = "load"
    /\ IF input.exists
       THEN df' = input.df /\ pc' = "select"
       ELSE df' = df /\ pc' = "done"
    /\ UNCHANGED <<prog, input, refs, today, out, li, all_unmatched_indices,
                   unmatched_table, summary_data, unmatched_out, summary_out>>

\* STEP 2: column selection and the empty-row drop
SelectColumns ==
    /\ prog = "transactions" /\ pc = "select"
    /\ df' = IF drop_empty_rows
             THEN DropNaAll(Project(df, columns_to_extract))
             ELSE Project(df, columns_to_extract)
    /\ pc' = "add"
    /\ UNCHANGED <<prog, input, refs, today, out, li, all_unmatched_indices,
                   unmatched_table, summary_data, unmatched_out, summary_out>>

RECURSIVE AddAll(_, _)
\* for col, val in columns_to_add.items(): df[col] = val
AddAll(d, adds) ==
    IF adds = <<>> THEN d
    ELSE AddAll(SetCol(d, Head(adds).col, [r \in 1..Len(d.rows) |-> Head(adds).val]),
                Tail(adds))

\* STEP 3: static columns
AddColumns ==
    /\ prog = "transactions" /\ pc = "add"
    /\ df' = AddAll(df, columns_to_add)
    /\ pc' = "age"
    /\ UNCHANGED <<prog, input, refs, today, out, li, all_unmatched_indices,
                   unmatched_table, summary_data, unmatched_out, summary_out>>

\* pd.to_datetime(value, errors="coerce"): a datetime cell is kept, an empty
\* cell and a text that is no date become NaT
ToDatetime(c) == IF c.k = "date" THEN c ELSE NaN

\* Series.dt.date: the time of day is dropped
DtDate(c) == IF c.k = "date" THEN Date(c.n, 0) ELSE c

\* lambda d: (today - d).days if pd.notnull(d) else -1
AgeDays(d, now) == IF ~IsNull(d) THEN Int_(now - d.n) ELSE Int_(-1)

\* STEP 4: the date column is normalised and the age column derived; a frame
\* without the date column raises KeyError
CalculateAge ==
    /\ prog = "transactions" /\ pc = "age"
    /\ IF HasCol(df, inplace_age_check.date_column)
       THEN LET p == ColPos(df, inplace_age_check.date_column)
                d1 == SetCol(df, inplace_age_check.date_column,
                             [r \in 1..Len(df.rows) |-> DtDate(ToDatetime(df.rows[r].vals[p]))])
                d2 == SetCol(d1, inplace_age_check.age_variable,
                             [r \in 1..Len(d1.rows) |-> AgeDays(d1.rows[r].vals[p], today)])
            IN  df' = d2 /\ pc' = "classify"
       ELSE df' = df /\ pc' = "error"
    /\ UNCHANGED <<prog, input, refs, today, out, li, all_unmatched_indices,
                   unmatched_table, summary_data, unmatched_out, summary_out>>

\* the keyword test of classify
EolHolds(d, row) ==
    Contains(Lower(PyStr(RowGet(d, row, eol_rule.trigger_column, Str(<<>>)))),
             Lower(eol_rule.keyword))

\* a comparison that also counts an age equal to the threshold as above it
SloValueAtOrAbove(rule, age) ==
    IF age >= rule.age_gt THEN rule.true_value ELSE rule.false_value

\* rule["true_value"] if age > rule["age_gt"] else rule["false_value"]
SloValue(rule, age) ==
    IF age > rule.age_gt THEN rule.true_value ELSE rule.false_value

\* for rule in slo_rules: the first rule whose severity matches decides
RECURSIVE ApplySloRules(_, _, _)
ApplySloRules(rules, severity, age) ==
    IF rules = <<>> THEN <<>>
    ELSE IF Lower(Head(rules).severity) = severity
         THEN SloValue(Head(rules), age)
         ELSE ApplySloRules(Tail(rules), severity, age)

\* a classify that consults the severity rules before the keyword
classifyRulesFirst(d, row) ==
    LET severity == Lower(Strip(PyStr(RowGet(d, row, "Severity", Str(<<>>)))))
        age == PyInt(RowGet(d, row, inplace_age_check.age_variable, NaN))
        byRule == IF age.ok THEN ApplySloRules(slo_rules, severity, age.n) ELSE <<>>
    IN  IF byRule # <<>> THEN byRule
        ELSE IF EolHolds(d, row) THEN eol_rule.value ELSE <<>>

\* classify(row): the label, a str
classify(d, row) ==
    IF EolHolds(d, row) THEN eol_rule.value
    ELSE LET severity == Lower(Strip(PyStr(RowGet(d, row, "Severity", Str(<<>>)))))
             age == PyInt(RowGet(d, row, inplace_age_check.age_variable, NaN))
         IN  IF ~age.ok THEN <<>>
             ELSE ApplySloRules(slo_rules, severity, age.n)

\* STEP 5: df[tgt_col] = df.apply(classify, axis=1)
ApplyLifecycleRules ==
    /\ prog = "transactions" /\ pc = "classify"
    /\ df' = SetCol(df, lifecycle_target_column,
                    [r \in 1..Len(df.rows) |-> Str(classify(df, df.rows[r]))])
    /\ pc' = "remap"
    /\ UNCHANGED <<prog, input, refs, today, out, li, all_unmatched_indices,
                   unmatched_table, summary_data, unmatched_out, summary_out>>

\* Series.map(dict): the mapped value, NaN for a value that is no key
MapValue(c, table) ==
    IF \E i \in 1..Len(table) : table[i].key = c
    THEN table[CHOOSE i \in 1..Len(table) : table[i].key = c].val
    ELSE NaN

\* a fill that also replaces a value Python counts as false (0, "")
FillFalsy(c, value) == IF IsNull(c) \/ c = Int_(0) \/ c = Str(<<>>) THEN value ELSE c

\* Series.fillna(value)
FillNa(c, value) == IF IsNull(c) THEN value ELSE c

\* STEP 6: df[col] = df[col].map(map_values).fillna("")
FinalMapping ==
    /\ prog = "transactions" /\ pc = "remap"
    /\ LET p == ColPos(df, final_mapping_column)
       IN  df' = SetCol(df, final_mapping_column,
                    [r \in 1..Len(df.rows) |->
                        FillNa(MapValue(df.rows[r].vals[p], map_values), Str(<<>>))])
    /\ pc' = "save"
    /\ UNCHANGED <<prog, input, refs, today, out, li, all_unmatched_indices,
                   unmatched_table, summary_data, unmatched_out, summary_out>>

\* df.drop(columns=[c], errors="ignore")
DropCol(d, c) ==
    LET keep == SelectSeq([i \in 1..Len(d.columns) |-> i], LAMBDA i : d.columns[i] # c)
    IN  [columns |-> [i \in 1..Len(keep) |-> d.columns[keep[i]]],
         rows |-> [r \in 1..Len(d.rows) |->
                     [d.rows[r] EXCEPT !.vals =
                         [i \in 1..Len(keep) |-> d.rows[r].vals[keep[i]]]]]]

\* STEP 7: the frame without the internal age column is written
SaveOutput ==
    /\ prog = "transactions" /\ pc = "save"
    /\ out' = [written |-> TRUE, df |-> DropCol(df, inplace_age_check.age_variable)]
    /\ pc' = "done"
    /\ UNCHANGED <<prog, input, refs, today, df, li, all_unmatched_indices,
                   unmatched_table, summary_data, unmatched_out, summary_out>>

NextTx ==
    \/ LoadInput
    \/ SelectColumns
    \/ AddColumns
    \/ CalculateAge
    \/ ApplyLifecycleRules
    \/ FinalMapping
    \/ SaveOutput

---------------------------------------------------------------------------
(* Sanitize_PT_v4.py: CONFIG *)

sIDNotFound == <<"I","D"," ","n","o","t"," ","f","o","u","n","d">>
sScanDateValue == <<"2","0","2","5","-","0","5","-","2","4">>
sOOS == <<"O","O","S">>
sWIS == <<"W","I","S">>

unmatched_placeholder == Str(sIDNotFound)

new_columns == <<"Scan Date", "Reviewer">>

column_static_values ==
    << [col |-> "Scan Date", val |-> Str(sScanDateValue)],
       [col |-> "Reviewer", val |-> Str(sSecurityTeam)] >>

lookups ==
    << [target_column |-> "Owner", match_column |-> "App ID"],
       [target_column |-> "Business Unit", match_column |-> "App ID"] >>

string_fill_rule ==
    [search_column |-> "Policy Status", target_column |-> "Lifecycle",
     search_string |-> sOutdated, fill_value |-> Str(sEOL)]

date_diff_rule ==
    [date_column |-> "Last Reviewed Date", target_column |-> "Days Since Review"]

severity_count_rule ==
    [severity_column |-> "Severity", count_column |-> "Count", target_column |-> "Status",
     rules |-> << [severity |-> sCritical, threshold |-> 30],
                  [severity |-> sHigh, threshold |-> 60],
                  [severity |-> sMedium, threshold |-> 90],
                  [severity |-> sLow, threshold |-> 180] >>,
     value_if_true |-> Str(sOOS), value_if_false |-> Str(sWIS)]

---------------------------------------------------------------------------
(* Sanitize_PT_v4.py: main, one action per step *)

\* the main file is read, or the run returns when it is missing
LoadMain ==
    /\ prog = "sanitize_v4" /\ pc = "load"
    /\ IF input.exists
       THEN df' = input.df /\ pc' = "static"
       ELSE df' = df /\ pc' = "done"
    /\ UNCHANGED <<prog, input, refs, today, out, li, all_unmatched_indices,
                   unmatched_table, summary_data, unmatched_out, summary_out>>

\* CONFIG["column_static_values"].get(col, "")
StaticValue(col) ==
    IF \E i \in 1..Len(column_static_values) : column_static_values[i].col = col
    THEN column_static_values[CHOOSE i \in 1..Len(column_static_values) :
                                  column_static_values[i].col = col].val
    ELSE Str(<<>>)

\* pd.concat([df_static, df_main], axis=1): the static columns are put in
\* front; a label the main frame already has then occurs twice
ConcatStatic(d, cols) ==
    [columns |-> cols \o d.columns,
     rows |-> [r \in 1..Len(d.rows) |->
                 [d.rows[r] EXCEPT !.vals =
                     [i \in 1..Len(cols) |-> StaticValue(cols[i])] \o d.rows[r].vals]]]

AddStaticColumns ==
    /\ prog = "sanitize_v4" /\ pc = "static"
    /\ df' = ConcatStatic(df, new_columns)
    /\ pc' = "lookups"
    /\ UNCHANGED <<prog, input, refs, today, out, li, all_unmatched_indices,
                   unmatched_table, summary_data, unmatched_out, summary_out>>

\* a column creation without the "not in columns" test: blanks the column
EnsureColAlways(d, c) == SetCol(d, c, [r \in 1..Len(d.rows) |-> Str(<<>>)])

\* if col not in df_main.columns: df_main[col] = ""
EnsureCol(d, c) ==
    IF HasCol(d, c) THEN d ELSE SetCol(d, c, [r \in 1..Len(d.rows) |-> Str(<<>>)])

\* value in lookup_dict, the dict built by Series(values, index=keys).to_dict()
DictHas(ref, value) == \E i \in 1..Len(ref) : ref[i].key = value

\* lookup_dict[value]: of two reference rows with one key the later one wins
DictGet(ref, value) ==
    LET hits == {i \in 1..Len(ref) : ref[i].key = value}
    IN  ref[CHOOSE i \in hits : \A j \in hits : j <= i].val

\* a matching step that leaves the cell blank on a miss
LookupCellBlank(ref, value) ==
    IF DictHas(ref, value) THEN DictGet(ref, value) ELSE Str(<<>>)

\* the cell written by one step of the matching loop
LookupCell(ref, value) ==
    IF DictHas(ref, value) THEN DictGet(ref, value) ELSE unmatched_placeholder

\* the rows of d whose match value is no key of the reference
UnmatchedRows(d, ref, match) ==
    {r \in 1..Len(d.rows) : ~DictHas(ref, d.rows[r].vals[ColPos(d, match)])}

\* the labels of the unmatched rows, in the order iterrows() visits them
MissedLabels(d, ref, p) ==
    Index([d EXCEPT !.rows = SelectSeq(d.rows, LAMBDA row : ~DictHas(ref, row.vals[p]))])

(* The CPython hash table behind all_unmatched_indices.  A slot holds a row  *)
(* label or -1 when unused; the hash of a non-negative int is the int; a    *)
(* new set has 8 slots; a probe looks at up to 9 following slots when they  *)
(* all lie inside the table, then jumps by (5 i + 1 + perturb) with the     *)
(* perturbation shifted right by 5 bits; a table filled to 3/5 is rebuilt   *)
(* with the first power of two above four times its entries.                *)
EmptySetTable == [i \in 1..8 |-> -1]

RECURSIVE SetProbe(_, _, _, _)
\* the slot (from 0) where x is found or will be put
SetProbe(slots, i, perturb, x) ==
    LET mask == Len(slots) - 1
        last == IF i + 9 <= mask THEN i + 9 ELSE i
        stop == {j \in i..last : slots[j + 1] = -1 \/ slots[j + 1] = x}
        shifted == perturb \div 32
    IN  IF stop # {}
        THEN CHOOSE j \in stop : \A k \in stop : j <= k
        ELSE SetProbe(slots, (i * 5 + 1 + shifted) % (mask + 1), shifted, x)

SetUsed(slots) == Cardinality({i \in 1..Len(slots) : slots[i] # -1})

\* x is written into its slot
SetInsert(slots, x) == [slots EXCEPT ![SetProbe(slots, x % Len(slots), x, x) + 1] = x]

RECURSIVE SetInsertAll(_, _)
SetInsertAll(slots, xs) ==
    IF xs = <<>> THEN slots ELSE SetInsertAll(SetInsert(slots, Head(xs)), Tail(xs))

RECURSIVE SetGrowSize(_, _)
SetGrowSize(size, minused) ==
    IF size <= minused THEN SetGrowSize(2 * size, minused) ELSE size

\* set_table_resize: the entries are put into a larger table in slot order
SetResize(slots) ==
    SetInsertAll([i \in 1..SetGrowSize(8, 4 * SetUsed(slots)) |-> -1],
                 SelectSeq(slots, LAMBDA v : v # -1))

\* set.add(x)
SetAdd(slots, x) ==
    IF \E i \in 1..Len(slots) : slots[i] = x THEN slots
    ELSE LET put == SetInsert(slots, x)
         IN  IF SetUsed(put) * 5 < (Len(put) - 1) * 3 THEN put ELSE SetResize(put)

RECURSIVE SetAddAll(_, _)
\* set.add for the labels xs, in this order
SetAddAll(slots, xs) ==
    IF xs = <<>> THEN slots ELSE SetAddAll(SetAdd(slots, Head(xs)), Tail(xs))

\* a collection that is started again by every lookup
AddAllUnmatchedFresh(S, missed) == missed

\* all_unmatched_indices.add(idx) for every unmatched row of one lookup
AddAllUnmatched(S, missed) == S \cup missed

\* a summary row with the two counts exchanged
SummaryRowSwapped(lookup, matched, unmatched) ==
    [target |-> lookup.target_column, matched |-> unmatched, unmatched |-> matched]

\* the dict appended to summary_data
SummaryRow(lookup, matched, unmatched) ==
    [target |-> lookup.target_column, matched |-> matched, unmatched |-> unmatched]

\* one pass of "for lookup in CONFIG['lookups']"; a missing reference file
\* ends the pass after the target column was created (continue)
ApplyLookup ==
    /\ prog = "sanitize_v4" /\ pc = "lookups" /\ li <= Len(lookups)
    /\ LET lookup == lookups[li]
           d1 == EnsureCol(df, lookup.target_column)
       IN  IF ~refs[li].exists
           THEN /\ df' = d1
                /\ UNCHANGED <<all_unmatched_indices, unmatched_table, summary_data>>
           ELSE LET ref == refs[li].rows
                    miss == UnmatchedRows(d1, ref, lookup.match_column)
                    p == ColPos(d1, lookup.match_column)
                IN  /\ df' = SetCol(d1, lookup.target_column,
                                [r \in 1..Len(d1.rows) |->
                                    LookupCell(ref, d1.rows[r].vals[p])])
                    /\ all_unmatched_indices' =
                          AddAllUnmatched(all_unmatched_indices,
                                          {d1.rows[r].idx : r \in miss})
                    /\ unmatched_table' =
                          SetAddAll(unmatched_table, MissedLabels(d1, ref, p))
                    /\ summary_data' = Append(summary_data,
                          SummaryRow(lookup, Len(d1.rows) - Cardinality(miss),
                                     Cardinality(miss)))
    /\ li' = li + 1
    /\ UNCHANGED <<prog, pc, input, refs, today, out, unmatched_out, summary_out>>

\* the loop over the lookups is left
EndLookups ==
    /\ prog = "sanitize_v4" /\ pc = "lookups" /\ li > Len(lookups)
    /\ pc' = "string_fill"
    /\ UNCHANGED <<prog, input, refs, today, df, out, li, all_unmatched_indices,
                   unmatched_table, summary_data, unmatched_out, summary_out>>

\* astype(str).str.contains(search_string, case=False, na=False)
StrContainsNoCase(c, needle) == Contains(Lower(PyStr(c)), Lower(needle))

\* the string fill rule; a frame without the search column raises KeyError
StringFill ==
    /\ prog = "sanitize_v4" /\ pc = "string_fill"
    /\ LET d1 == EnsureCol(df, string_fill_rule.target_column)
       IN  IF HasCol(d1, string_fill_rule.search_column)
           THEN LET p == ColPos(d1, string_fill_rule.search_column)
                    q == ColPos(d1, string_fill_rule.target_column)
                IN  /\ df' = SetCol(d1, string_fill_rule.target_column,
                                [r \in 1..Len(d1.rows) |->
                                    IF StrContainsNoCase(d1.rows[r].vals[p],
                                                         string_fill_rule.search_string)
                                    THEN string_fill_rule.fill_value
                                    ELSE d1.rows[r].vals[q]])
                    /\ pc' = "date_diff"
           ELSE df' = d1 /\ pc' = "error"
    /\ UNCHANGED <<prog, input, refs, today, out, li, all_unmatched_indices,
                   unmatched_table, summary_data, unmatched_out, summary_out>>

\* lambda d: (today - d.date()).days if pd.notnull(d) else ""
DaysSince(d, now) == IF ~IsNull(d) THEN Int_(now - DtDate(d).n) ELSE Str(<<>>)

\* the date difference rule
DateDiff ==
    /\ prog = "sanitize_v4" /\ pc = "date_diff"
    /\ LET d1 == EnsureCol(df, date_diff_rule.target_column)
       IN  IF HasCol(d1, date_diff_rule.date_column)
           THEN LET p == ColPos(d1, date_diff_rule.date_column)
                IN  /\ df' = SetCol(d1, date_diff_rule.target_column,
                                [r \in 1..Len(d1.rows) |->
                                    DaysSince(ToDatetime(d1.rows[r].vals[p]), today)])
                    /\ pc' = "severity"
           ELSE df' = d1 /\ pc' = "error"
    /\ UNCHANGED <<prog, input, refs, today, out, li, all_unmatched_indices,
                   unmatched_table, summary_data, unmatched_out, summary_out>>

\* df[count_column] > threshold, element-wise: False for NaN
CountAbove(c, threshold) == c.k = "int" /\ c.n > threshold

\* one pass of "for severity, threshold in rule['rules'].items()" on one cell
SeverityCell(sev, count, old, r) ==
    IF sev = Str(r.severity)
    THEN (IF CountAbove(count, r.threshold)
          THEN severity_count_rule.value_if_true
          ELSE severity_count_rule.value_if_false)
    ELSE old

RECURSIVE SeverityFold(_, _, _, _)
SeverityFold(rules, sev, count, old) ==
    IF rules = <<>> THEN old
    ELSE SeverityFold(Tail(rules), sev, count, SeverityCell(sev, count, old, Head(rules)))

\* the severity and count rule
SeverityCount ==
    /\ prog = "sanitize_v4" /\ pc = "severity"
    /\ LET d1 == EnsureCol(df, severity_count_rule.target_column)
       IN  IF HasCol(d1, severity_count_rule.severity_column)
              /\ HasCol(d1, severity_count_rule.count_column)
           THEN LET s == ColPos(d1, severity_count_rule.severity_column)
                    c == ColPos(d1, severity_count_rule.count_column)
                    q == ColPos(d1, severity_count_rule.target_column)
                IN  /\ df' = SetCol(d1, severity_count_rule.target_column,
                                [r \in 1..Len(d1.rows) |->
                                    SeverityFold(severity_count_rule.rules,
                                                 d1.rows[r].vals[s], d1.rows[r].vals[c],
                                                 d1.rows[r].vals[q])])
                    /\ pc' = "save_unmatched"
           ELSE df' = d1 /\ pc' = "error"
    /\ UNCHANGED <<prog, input, refs, today, out, li, all_unmatched_indices,
                   unmatched_table, summary_data, unmatched_out, summary_out>>

\* list(a set): CPython walks the hash table slot by slot
ListOfSet(slots) == SelectSeq(slots, LAMBDA v : v # -1)

\* df_main.loc[labels]: the rows with these index labels, in the order given
Loc(d, labels) ==
    [d EXCEPT !.rows =
        [i \in 1..Len(labels) |->
            d.rows[CHOOSE r \in 1..Len(d.rows) : d.rows[r].idx = labels[i]]]]

\* the unmatched rows are written when there are any
SaveUnmatched ==
    /\ prog = "sanitize_v4" /\ pc = "save_unmatched"
    /\ unmatched_out' =
          IF all_unmatched_indices # {}
          THEN [written |-> TRUE, df |-> Loc(df, ListOfSet(unmatched_table))]
          ELSE unmatched_out
    /\ pc' = "save"
    /\ UNCHANGED <<prog, input, refs, today, df, out, li, all_unmatched_indices,
                   unmatched_table, summary_data, summary_out>>

\* the final file and its summary sheet are written
SaveFinal ==
    /\ prog = "sanitize_v4" /\ pc = "save"
    /\ out' = [written |-> TRUE, df |-> df]
    /\ summary_out' = [written |-> TRUE, rows |-> summary_data]
    /\ pc' = "done"
    /\ UNCHANGED <<prog, input, refs, today, df, li, all_unmatched_indices,
                   unmatched_table, summary_data, unmatched_out>>

NextV4 ==
    \/ LoadMain
    \/ AddStaticColumns
    \/ ApplyLookup
    \/ EndLookups
    \/ StringFill
    \/ DateDiff
    \/ SeverityCount
    \/ SaveUnmatched
    \/ SaveFinal

---------------------------------------------------------------------------
(* Inputs: the files a run can find *)

sActive == <<"A","c","t","i","v","e">>
sOutdatedInside == <<"x"," ","O","U","T","d","a","t","e","d","!">>
sCriticalPadded == <<" ","C","R","I","T","I","C","A","L"," ">>
sMediumLower == <<"m","e","d","i","u","m">>
sCriticalLower == <<"c","r","i","t","i","c","a","l">>
sUnknown == <<"U","n","k","n","o","w","n">>
sNoDate == <<"n","/","a">>
sA1 == <<"A","1">>
sA2 == <<"A","2">>
sNote == <<"x">>
sOld == <<"o","l","d">>

\* the main file with the given columns and n rows of cells f[1], ..., f[n];
\* read_excel labels the rows 0, 1, 2, ...
File(cols, n, f) ==
    [exists |-> TRUE,
     df |-> [columns |-> cols,
             rows |-> [r \in 1..n |-> [idx |-> r - 1, vals |-> f[r]]]]]

NoFile == [exists |-> FALSE, df |-> EmptyFrame]

NoOutput == [written |-> FALSE, df |-> EmptyFrame]

NoSummary == [written |-> FALSE, rows |-> <<>>]

\* the state a run starts in, for a program, its main file and reference files
Start(p, in, rf) ==
    /\ prog = p
    /\ pc = "load"
    /\ input = in
    /\ refs = rf
    /\ today = Today
    /\ df = EmptyFrame
    /\ out = NoOutput
    /\ li = 1
    /\ all_unmatched_indices = {}
    /\ unmatched_table = EmptySetTable
    /\ summary_data = <<>>
    /\ unmatched_out = NoOutput
    /\ summary_out = NoSummary

(* per-row inputs of transactions.py: every Status, Severity and Scan Date *)
TxStatusVals == {NaN, Str(sActive), Str(sOutdatedInside)}

TxSeverityVals ==
    {NaN, Str(sCriticalPadded), Str(sHigh), Str(sMediumLower), Str(sLow), Str(sUnknown)}

\* the ages at and one above each threshold of slo_rules, and one day ahead
TxAges == UNION {{slo_rules[i].age_gt, slo_rules[i].age_gt + 1} : i \in 1..Len(slo_rules)}
          \cup {-1}

TxDateVals == {NaN, Str(sNoDate), Date(Today, 1)} \cup {Date(Today - a, 0) : a \in TxAges}

TxRichCols == <<"App ID", "Status", "Notes", "Severity", "Scan Date">>

TxRichRows ==
    {<<Str(sA1), st, Str(sNote), sv, dt>> :
        st \in TxStatusVals, sv \in TxSeverityVals, dt \in TxDateVals}

(* row-count inputs of transactions.py: empty and filled cells, three layouts *)
TxFullCols ==
    <<"Notes", "App ID", "Application Name", "Scan Date", "Status", "Severity", "Lifecycle">>

TxFullRows ==
    {<<nt, id, NaN, dt, NaN, NaN, lc>> :
        nt \in {NaN, Str(sNote)}, id \in {NaN, Str(sA1)},
        dt \in {NaN, Date(Today - 1, 0)}, lc \in {NaN, Str(sOld)}}

TxFewCols == <<"Scan Date", "Notes", "Severity">>

TxFewRows ==
    {<<dt, nt, sv>> :
        dt \in {NaN, Date(Today - 1, 0)}, nt \in {NaN, Str(sNote)}, sv \in {NaN, Str(sLow)}}

TxNoneCols == <<"Notes">>

TxNoneRows == {<<nt>> : nt \in {NaN, Str(sNote)}}

(* per-row inputs of Sanitize_PT_v4.py *)
V4SeverityVals == {NaN, Str(sCritical), Str(sCriticalLower), Str(sLow)}

V4CountVals ==
    {NaN, Int_(-1), Int_(30), Int_(31), Int_(180), Int_(181)}

V4DateVals == {NaN, Str(sNoDate), Date(Today, 1), Date(Today - 5, 0)}

V4PolicyVals == {NaN, Str(sOutdatedInside)}

V4Cols == <<"App ID", "Policy Status", "Last Reviewed Date", "Severity", "Count">>

V4RichRows ==
    {<<Str(sA1), ps, dt, sv, ct>> :
        ps \in V4PolicyVals, dt \in V4DateVals, sv \in V4SeverityVals, ct \in V4CountVals}

\* the i-th row of a reference file holds the value "v" * i
RefValue(i) == Str([j \in 1..i |-> "v"])

\* a reference file with these keys, in this order
RefFile(keys) ==
    [exists |-> TRUE, rows |-> [i \in 1..Len(keys) |-> [key |-> keys[i], val |-> RefValue(i)]]]

NoRefFile == [exists |-> FALSE, rows |-> <<>>]

V4RichRefs == << RefFile(<<Str(sA1)>>), NoRefFile >>

(* lookup inputs of Sanitize_PT_v4.py: every match value and reference file *)
V4IdVals == {NaN, Str(sA1), Str(sA2)}

V4PlainRows == {<<id, NaN, NaN, Str(sLow), Int_(0)>> : id \in V4IdVals}

\* a main file that already has a target column and a static column
V4OwnedCols == <<"Owner", "Scan Date">> \o V4Cols

V4OwnedRows == {<<Str(sOld), NaN>> \o r : r \in V4PlainRows}

RefKeyVals == {Str(sA1), Str(sA2)}

(* export inputs of Sanitize_PT_v4.py: long main files whose rows are found *)
(* in the first reference file (A1) or not (A2)                             *)
V4LongRows == {<<id, NaN, NaN, Str(sLow), Int_(0)>> : id \in RefKeyVals}

\* the second reference file is missing or knows the other key only
V4LongRefs ==
    {<<RefFile(<<Str(sA1)>>), NoRefFile>>,
     <<RefFile(<<Str(sA1)>>), RefFile(<<Str(sA2)>>)>>}

RefFiles ==
    {NoRefFile} \cup
    UNION {{RefFile(ks) : ks \in [1..n -> RefKeyVals]} : n \in 0..MaxRefRows}

---------------------------------------------------------------------------
(* Specifications *)

\* a run of program p on no main file, or on one of at most maxRows rows
StartOn(p, cols, RowVals, maxRows, rf) ==
    \/ Start(p, NoFile, rf)
    \/ \E n \in 0..maxRows : \E f \in [1..n -> RowVals] : Start(p, File(cols, n, f), rf)

\* both programs on the per-row inputs
Init ==
    \/ StartOn("transactions", TxRichCols, TxRichRows, MaxRichRows, <<>>)
    \/ StartOn("sanitize_v4", V4Cols, V4RichRows, MaxRichRows, V4RichRefs)

Next == NextTx \/ NextV4

Spec == Init /\ [][Next]_vars

\* transactions.py on the row-count inputs
InitRows ==
    \/ StartOn("transactions", TxFullCols, TxFullRows, MaxRows, <<>>)
    \/ StartOn("transactions", TxFewCols, TxFewRows, MaxRows, <<>>)
    \/ StartOn("transactions", TxNoneCols, TxNoneRows, MaxRows, <<>>)

SpecRows == InitRows /\ [][NextTx]_vars

\* Sanitize_PT_v4.py on the lookup inputs
InitLookup ==
    \E r1 \in RefFiles, r2 \in RefFiles :
        \/ StartOn("sanitize_v4", V4Cols, V4PlainRows, MaxRows, <<r1, r2>>)
        \/ StartOn("sanitize_v4", V4OwnedCols, V4OwnedRows, MaxRows, <<r1, r2>>)

SpecLookup == InitLookup /\ [][NextV4]_vars

\* Sanitize_PT_v4.py on the export inputs
InitExport ==
    \E rf \in V4LongRefs : StartOn("sanitize_v4", V4Cols, V4LongRows, MaxLongRows, rf)

SpecExport == InitExport /\ [][NextV4]_vars

---------------------------------------------------------------------------
(* Properties of the classification (transactions.py and Sanitize_PT_v4.py) *)

\* the cell of a row in the (first) column labelled c
Cell(d, row, c) == row.vals[ColPos(d, c)]

\* the text has a part that equals the keyword when letter case is ignored
HasKeyword(text, keyword) ==
    \E i \in 1..(Len(text) - Len(keyword) + 1) :
        \A j \in 1..Len(keyword) :
            LowerChar(text[i + j - 1]) = LowerChar(keyword[j])

\* the keyword override holds for a row of process_excel
OverrideHolds(d, row) ==
    HasCol(d, eol_rule.trigger_column)
    /\ HasKeyword(PyStr(Cell(d, row, eol_rule.trigger_column)), eol_rule.keyword)

\* the frame holds the labels of classify: the step after ApplyLifecycleRules
Classified == prog = "transactions" /\ pc = "remap"

\* the rules of slo_rules a row's Severity selects
RulesOf(d, row) ==
    {i \in 1..Len(slo_rules) :
        Lower(Strip(PyStr(Cell(d, row, "Severity")))) = Lower(slo_rules[i].severity)}

\* C1: a row whose Status text contains the keyword (any letter case) is
\* labelled "EOL", whatever its Severity and age are.
C1_KeywordPrecedence ==
    Classified =>
        \A r \in 1..Len(df.rows) :
            OverrideHolds(df, df.rows[r])
                => Cell(df, df.rows[r], lifecycle_target_column) = Str(sEOL)

\* a keyword row that the Critical rule alone would label "Out of SLO"
C1_Witness ==
    /\ Classified
    /\ \E r \in 1..Len(df.rows) :
          /\ OverrideHolds(df, df.rows[r])
          /\ Cell(df, df.rows[r], "Severity") = Str(sCriticalPadded)
          /\ Cell(df, df.rows[r], "age_days") = Int_(31)
          /\ Cell(df, df.rows[r], lifecycle_target_column) = Str(sEOL)

\* the frame holds the result of the severity and count rule of main
Counted == prog = "sanitize_v4" /\ pc = "save_unmatched"

\* the rules of severity_count_rule a row's Severity selects
CountRulesOf(d, row) ==
    {i \in 1..Len(severity_count_rule.rules) :
        Cell(d, row, "Severity") = Str(severity_count_rule.rules[i].severity)}

\* C2: without the keyword override, a row whose category selects a rule
\* with threshold T gets the at-or-below value for every age <= T (age T and
\* negative ages included) and the above value for age T + 1.
C2_ThresholdBoundary ==
    /\ Classified =>
          \A r \in 1..Len(df.rows) : \A i \in RulesOf(df, df.rows[r]) :
              LET row == df.rows[r]
                  age == Cell(df, row, "age_days").n
                  label == Cell(df, row, lifecycle_target_column)
              IN  ~OverrideHolds(df, row) =>
                    /\ age <= slo_rules[i].age_gt => label = Str(slo_rules[i].false_value)
                    /\ age = slo_rules[i].age_gt + 1 => label = Str(slo_rules[i].true_value)
    /\ Counted =>
          \A r \in 1..Len(df.rows) : \A i \in CountRulesOf(df, df.rows[r]) :
              LET row == df.rows[r]
                  count == Cell(df, row, "Count")
                  status == Cell(df, row, "Status")
                  T == severity_count_rule.rules[i].threshold
              IN  count.k = "int" =>
                    /\ count.n <= T => status = severity_count_rule.value_if_false
                    /\ count.n = T + 1 => status = severity_count_rule.value_if_true

\* a Critical row one day above the threshold, labelled "Out of SLO"
C2_Witness ==
    /\ Classified
    /\ \E r \in 1..Len(df.rows) :
          /\ ~OverrideHolds(df, df.rows[r])
          /\ RulesOf(df, df.rows[r]) = {1}
          /\ Cell(df, df.rows[r], "age_days") = Int_(slo_rules[1].age_gt + 1)
          /\ Cell(df, df.rows[r], lifecycle_target_column) = Str(sOutOfSLO)

\* the frame holds the derived age of process_excel
Aged == prog = "transactions" /\ pc = "classify"

\* the frame holds the derived day offset of main
Diffed == prog = "sanitize_v4" /\ pc = "severity"

\* the rows of the main file that survived the empty-row drop, by label
InputRow(idx) ==
    input.df.rows[CHOOSE r \in 1..Len(input.df.rows) : input.df.rows[r].idx = idx]

\* the cell the main file holds for a row of the frame
InputCell(row, c) == Cell(input.df, InputRow(row.idx), c)

\* C3: a row without a usable date holds an empty marker, never a number,
\* in the derived column; a row with a date holds now - date in whole days.
C3_EmptyMarker ==
    /\ Aged =>
          \A r \in 1..Len(df.rows) :
              LET date == InputCell(df.rows[r], "Scan Date")
                  age == Cell(df, df.rows[r], "age_days")
              IN  IF date.k = "date"
                  THEN age = Int_(today - date.n)
                  ELSE age.k # "int"
    /\ Diffed =>
          \A r \in 1..Len(df.rows) :
              LET date == InputCell(df.rows[r], "Last Reviewed Date")
                  days == Cell(df, df.rows[r], "Days Since Review")
              IN  IF date.k = "date"
                  THEN days = Int_(today - date.n)
                  ELSE days.k # "int"

\* C4: in process_excel a row without a usable date and without the keyword
\* gets the empty label.
C4_NoDateEmptyLabel ==
    Classified =>
        \A r \in 1..Len(df.rows) :
            LET row == df.rows[r]
            IN  (InputCell(row, "Scan Date").k # "date" /\ ~OverrideHolds(df, row))
                    => Cell(df, row, lifecycle_target_column) = Str(<<>>)

\* the label a remap table entry stands for, by the text of the label
Remapped(label) ==
    IF label = Str(sEOL) THEN Str(sEOL)
    ELSE IF label = Str(sIgnore) THEN Int_(0)
    ELSE IF label = Str(sOutOfSLO) THEN Int_(1)
    ELSE Str(<<>>)

\* C10: the final mapping turns "EOL" into "EOL", "Ignore" into 0 and
\* "Out of SLO" into 1, and every other label into "".
C10_RemapTotality ==
    [][(prog = "transactions" /\ pc = "remap") =>
          /\ Len(df'.rows) = Len(df.rows)
          /\ \A r \in 1..Len(df.rows) :
                Cell(df', df'.rows[r], final_mapping_column)
                    = Remapped(Cell(df, df.rows[r], lifecycle_target_column))]_vars

\* a mapped 0 and a defaulted "" were both written
C10_Witness ==
    /\ prog = "transactions" /\ pc = "save"
    /\ \E r \in 1..Len(df.rows) : Cell(df, df.rows[r], final_mapping_column) = Int_(0)

---------------------------------------------------------------------------
(* Properties of the lookups (Sanitize_PT_v4.py) *)

\* lookup k was reached by the loop and its reference file was there
Processed(k) ==
    prog = "sanitize_v4" /\ pc \notin {"load", "static"} /\ k < li /\ refs[k].exists

\* lookup k was reached by the loop and its reference file was missing
Skipped(k) ==
    prog = "sanitize_v4" /\ pc \notin {"load", "static"} /\ k < li /\ ~refs[k].exists

\* the value is a key of the lookup table of reference file k
IsKey(k, value) == \E i \in 1..Len(refs[k].rows) : refs[k].rows[i].key = value

\* the table's value for a key: the value of the last reference row with it
TableValue(k, value) ==
    LET ref == refs[k].rows
    IN  ref[CHOOSE i \in 1..Len(ref) :
                /\ ref[i].key = value
                /\ \A j \in (i + 1)..Len(ref) : ref[j].key # value].val

\* the rows of the frame that lookup k matches
Hits(k) ==
    {r \in 1..Len(df.rows) : IsKey(k, Cell(df, df.rows[r], lookups[k].match_column))}

\* lookup k left every row with the table's value or with the placeholder,
\* remembered every unmatched row and counted both kinds
LookupDone(k) ==
    /\ \A r \in 1..Len(df.rows) :
          LET value == Cell(df, df.rows[r], lookups[k].match_column)
              target == Cell(df, df.rows[r], lookups[k].target_column)
          IN  IF IsKey(k, value)
              THEN target = TableValue(k, value)
              ELSE /\ target = Str(sIDNotFound)
                   /\ df.rows[r].idx \in all_unmatched_indices
    /\ Cardinality({i \in 1..Len(summary_data) :
                       summary_data[i].target = lookups[k].target_column}) = 1
    /\ \A i \in 1..Len(summary_data) :
          summary_data[i].target = lookups[k].target_column =>
              /\ summary_data[i].matched = Cardinality(Hits(k))
              /\ summary_data[i].unmatched = Len(df.rows) - Cardinality(Hits(k))

\* C5: after the pass of a lookup every row holds the table's value for its
\* match value, or the placeholder when the value is no key; unmatched rows
\* are in the unmatched collection and both kinds are counted.
C5_LookupJoin == \A k \in 1..Len(lookups) : Processed(k) => LookupDone(k)

\* a key that occurs twice in the reference file, one hit and one miss
C5_Witness ==
    /\ pc = "done" /\ Processed(1)
    /\ Len(refs[1].rows) = 2 /\ refs[1].rows[1].key = refs[1].rows[2].key
    /\ Cardinality(Hits(1)) = 1 /\ Len(df.rows) = 2
    /\ \E r \in 1..Len(df.rows) : Cell(df, df.rows[r], "Owner") = RefValue(2)
    /\ \E r \in 1..Len(df.rows) : Cell(df, df.rows[r], "Owner") = Str(sIDNotFound)

\* the row labels that missed in at least one processed lookup
MissedSomewhere ==
    {df.rows[r].idx : r \in {q \in 1..Len(df.rows) :
                                \E k \in 1..Len(lookups) : Processed(k) /\ q \notin Hits(k)}}

\* C6: the unmatched collection holds exactly the labels of the rows that
\* missed in a processed lookup, each once.
C6_UnmatchedSet ==
    prog = "sanitize_v4" =>
        /\ all_unmatched_indices = MissedSomewhere
        /\ Cardinality(all_unmatched_indices) <= Len(input.df.rows)

\* a row that misses both lookups is held once, next to a row that misses one
C6_Witness ==
    /\ pc = "done" /\ Processed(1) /\ Processed(2)
    /\ Len(df.rows) = 2
    /\ 1 \notin Hits(1) /\ 1 \notin Hits(2)
    /\ 2 \notin Hits(1) /\ 2 \in Hits(2)
    /\ all_unmatched_indices = {0, 1}

\* a pass of the loop whose reference file is missing
SkipStep == prog = "sanitize_v4" /\ pc = "lookups" /\ li <= Len(lookups) /\ ~refs[li].exists

\* C7: a lookup without its reference file creates its blank target column
\* when absent and changes nothing else; later lookups are still processed.
C7_MissingReference ==
    /\ [][SkipStep =>
            /\ all_unmatched_indices' = all_unmatched_indices
            /\ summary_data' = summary_data
            /\ li' = li + 1 /\ pc' = pc
            /\ IF HasCol(df, lookups[li].target_column)
               THEN df' = df
               ELSE /\ df'.columns = Append(df.columns, lookups[li].target_column)
                    /\ Index(df') = Index(df)
                    /\ \A r \in 1..Len(df.rows) :
                          df'.rows[r].vals = Append(df.rows[r].vals, Str(<<>>))]_vars
    /\ [](\A k \in 1..Len(lookups) : \A j \in 1..Len(lookups) :
            (Skipped(k) /\ k < j /\ Processed(j)) => LookupDone(j))
    /\ []((prog = "sanitize_v4" /\ pc = "done" /\ input.exists) => li = Len(lookups) + 1)

\* the first lookup was skipped over a main file that has its target column,
\* and the second one was processed with a miss
C7_Witness ==
    /\ pc = "done" /\ Skipped(1) /\ Processed(2)
    /\ HasCol(input.df, "Owner") /\ Len(df.rows) = 2
    /\ \A r \in 1..Len(df.rows) : Cell(df, df.rows[r], "Owner") = Str(sOld)
    /\ Cardinality(Hits(2)) = 1
    /\ Len(summary_data) = 1

\* the lookups whose reference file is there, in configuration order
Available == SelectSeq([k \in 1..Len(lookups) |-> k], LAMBDA k : refs[k].exists)

\* the run wrote its summary sheet
Summarised == prog = "sanitize_v4" /\ pc = "done" /\ summary_out.written

\* C8 as stated: the summary has one row per configured lookup, in
\* configuration order, also when a reference file was missing.
C8_OneRowPerLookup ==
    Summarised =>
        /\ Len(summary_out.rows) = Len(lookups)
        /\ \A k \in 1..Len(lookups) :
              summary_out.rows[k].target = lookups[k].target_column

\* C8 amended: the summary has one row per lookup whose reference file was
\* there, in configuration order, with the target column and both counts; a
\* lookup whose reference file was missing has no row.
C8_OneRowPerProcessedLookup ==
    Summarised =>
        /\ Len(summary_out.rows) = Len(Available)
        /\ \A i \in 1..Len(Available) :
              LET k == Available[i]
              IN  /\ summary_out.rows[i].target = lookups[k].target_column
                  /\ summary_out.rows[i].matched = Cardinality(Hits(k))
                  /\ summary_out.rows[i].unmatched = Len(df.rows) - Cardinality(Hits(k))

\* a run with one missing reference file and one hit and one miss in the other
C8_Witness ==
    /\ Summarised
    /\ ~refs[1].exists /\ refs[2].exists
    /\ Len(df.rows) = 2 /\ Cardinality(Hits(2)) = 1
    /\ Len(summary_out.rows) = 1
    /\ summary_out.rows[1] =
          [target |-> "Business Unit", matched |-> 1, unmatched |-> 1]

---------------------------------------------------------------------------
(* Properties of the row count (transactions.py) *)

\* a row of the main file with a non-empty cell in a retained column
KeptByDrop(row) ==
    \E i \in 1..Len(columns_to_extract) :
        /\ HasCol(input.df, columns_to_extract[i])
        /\ ~IsNull(Cell(input.df, row, columns_to_extract[i]))

\* C9: the frame never has more rows than the main file; the column
\* selection removes exactly the rows whose retained cells are all empty, and
\* every other step keeps the rows and their order.
C9_RowCount ==
    /\ [](prog = "transactions" => Len(df.rows) <= Len(input.df.rows))
    /\ [][prog = "transactions" =>
            /\ pc = "select" =>
                  Index(df') = Index([input.df EXCEPT !.rows =
                                         SelectSeq(input.df.rows, KeptByDrop)])
            /\ pc \in {"add", "age", "classify", "remap"} => Index(df') = Index(df)
            /\ pc = "save" => Index(out'.df) = Index(df) /\ df' = df]_vars

\* the first of two rows was dropped and the second one written
C9_Witness ==
    /\ prog = "transactions" /\ pc = "done" /\ out.written
    /\ Len(input.df.rows) = 2
    /\ Index(out.df) = <<1>>
    /\ ~IsNull(Cell(input.df, input.df.rows[1], "Notes"))

---------------------------------------------------------------------------
(* Properties of the column injector (transactions.py and Sanitize_PT_v4.py) *)

\* the frame holds the injected columns: the step after AddColumns of
\* process_excel, the step after AddStaticColumns of main
Injected ==
    \/ prog = "transactions" /\ pc = "age"
    \/ prog = "sanitize_v4" /\ pc = "lookups" /\ li = 1 /\ summary_data = <<>>

\* the injected column names with their configured constants
InjectedColumns ==
    IF prog = "transactions"
    THEN {<<columns_to_add[i].col, columns_to_add[i].val>> : i \in 1..Len(columns_to_add)}
    ELSE {<<new_columns[i], StaticValue(new_columns[i])>> : i \in 1..Len(new_columns)}

\* C11: after injection every injected column name occurs exactly once in
\* the column set and holds its configured constant in every row, also when
\* the input already had a column of that name.
C11_InjectedOnce ==
    Injected =>
        \A cv \in InjectedColumns :
            /\ Cardinality(ColPositions(df, cv[1])) = 1
            /\ \A r \in 1..Len(df.rows) :
                  \A p \in ColPositions(df, cv[1]) : df.rows[r].vals[p] = cv[2]

---------------------------------------------------------------------------
(* Properties of the unmatched-row export (Sanitize_PT_v4.py) *)

\* the unmatched rows were written by SaveUnmatched
Exported == prog = "sanitize_v4" /\ unmatched_out.written

RECURSIVE Ascending(_)
\* the labels of a set from the lowest to the highest
Ascending(S) ==
    IF S = {} THEN <<>>
    ELSE LET m == CHOOSE x \in S : \A y \in S : x <= y
         IN  <<m>> \o Ascending(S \ {m})

\* the row of the frame with this index label
RowAt(d, label) == d.rows[CHOOSE r \in 1..Len(d.rows) : d.rows[r].idx = label]

\* C12: the exported unmatched sub-dataset holds exactly the rows whose
\* positions are in the accumulated unmatched collection, each once, with
\* the full column set, in ascending original row position.
C12_ExportAscending ==
    Exported =>
        /\ unmatched_out.df.columns = df.columns
        /\ Index(unmatched_out.df) = Ascending(all_unmatched_indices)
        /\ \A i \in 1..Len(unmatched_out.df.rows) :
              unmatched_out.df.rows[i] = RowAt(df, unmatched_out.df.rows[i].idx)

---------------------------------------------------------------------------
(* Properties of the category matching (transactions.py and Sanitize_PT_v4.py) *)

\* the rules of severity_count_rule whose category equals the row's Severity
\* after trimming and when letter case is ignored
FoldedCountRulesOf(d, row) ==
    {i \in 1..Len(severity_count_rule.rules) :
        Lower(Strip(PyStr(Cell(d, row, "Severity"))))
            = Lower(severity_count_rule.rules[i].severity)}

\* C13: a row's category selects a threshold rule by comparison after
\* trimming surrounding whitespace and ignoring letter case: a row that
\* selects a rule gets one of the rule's two values, and a row that selects
\* none, and on which the keyword override does not hold, the empty label.
C13_CategoryMatching ==
    /\ Classified =>
          \A r \in 1..Len(df.rows) :
              LET row == df.rows[r]
                  label == Cell(df, row, lifecycle_target_column)
              IN  ~OverrideHolds(df, row) =>
                    /\ \A i \in RulesOf(df, row) :
                          label \in {Str(slo_rules[i].true_value),
                                     Str(slo_rules[i].false_value)}
                    /\ RulesOf(df, row) = {} => label = Str(<<>>)
    /\ Counted =>
          \A r \in 1..Len(df.rows) :
              LET row == df.rows[r]
                  status == Cell(df, row, "Status")
              IN  /\ \A i \in FoldedCountRulesOf(df, row) :
                        status \in {severity_count_rule.value_if_true,
                                    severity_count_rule.value_if_false}
                  /\ FoldedCountRulesOf(df, row) = {} => status = Str(<<>>)

=============================================================================
